---- MODULE Spec2Model ----
(***************************************************************************)
(* json-schema-to-dts: the name registry, the three-pass schema scanner    *)
(* and the type expression builder, as state machines.                     *)
(*                                                                         *)
(* Strings are sequences of chunks.  A chunk is one character of a small   *)
(* alphabet or one literal word the code itself writes ("Item", "string",  *)
(* " | ", ...); no word can be spelled with the characters of the          *)
(* alphabet, so two strings are equal exactly when their chunk sequences   *)
(* are equal and string concatenation is \o.                               *)
(*                                                                         *)
(* A JSON pointer "#/definitions/A" is the sequence of its "/"-separated   *)
(* parts, each part a string: << <<"#">>, <<"definitions">>, <<"A">> >>.   *)
(***************************************************************************)
EXTENDS Naturals, Sequences, FiniteSets, TLC

VARIABLES
    jsonPointerToEntryMap, \* Map<pointer, {name, baseName}>, in insertion order
    typeNameCount,         \* Map<baseName, number>
    calls,                 \* the register/delete calls made on the registry, with results
    schema,                \* the root document of the file being processed
    references,            \* Set<string> of $ref values, in insertion order
    pc,                    \* position of processSchemaFile
    typeDefinitions,       \* declarations pushed so far
    exportedTypes,         \* names pushed so far
    sortedPointers,        \* Array.from(allRegistered.keys()).sort()
    written,               \* what writeOutputFile wrote
    error,                 \* the error processSchemaFile threw, if any
    config,                \* the ToTypesConfig toTypes was called with
    schemaFiles,           \* the files glob found, in the order of the loop
    outcomes               \* what became of each file the loop is done with

vars == <<jsonPointerToEntryMap, typeNameCount, calls, schema, references, pc,
          typeDefinitions, exportedTypes, sortedPointers, written, error,
          config, schemaFiles, outcomes>>

registryVars == <<jsonPointerToEntryMap, typeNameCount>>
batchVars == <<config, schemaFiles, outcomes>>
pipelineVars == <<schema, references, pc, typeDefinitions, exportedTypes,
                  sortedPointers, written, error, batchVars>>

(***************************************************************************)
(* Strings                                                                 *)
(***************************************************************************)

\* [a-z], [A-Z] and [0-9] of the model's alphabet.
LowerChars == {"a", "b", "s"}
UpperChars == {"A", "B", "S", "R"}
DigitChars == {"0", "1", "2", "3", "4", "5", "6", "7", "8", "9"}

\* Literal words the code appends to names, and the fixed pointer parts that
\* consist of letters only.
AlnumWords == {"Item", "Value", "Option", "Part", "definitions", "properties",
               "items", "additionalProperties", "oneOf", "anyOf", "allOf", "ext",
               "defs", "legacy", "fallback"}

\* The same words with their first letter in upper case.
UpperWords == {"Definitions", "Properties", "Items", "AdditionalProperties",
               "OneOf", "AnyOf", "AllOf", "Ext", "Defs", "Legacy", "Fallback",
               "Status"}

\* /[a-zA-Z0-9]/
IsAlnum(c) ==
    c \in LowerChars \cup UpperChars \cup DigitChars \cup AlnumWords \cup UpperWords

\* String.prototype.toUpperCase on one character.
ToUpper(c) ==
    CASE c = "a" -> "A"
      [] c = "b" -> "B"
      [] c = "s" -> "S"
      [] c = "definitions" -> "Definitions"
      [] c = "properties" -> "Properties"
      [] c = "items" -> "Items"
      [] c = "additionalProperties" -> "AdditionalProperties"
      [] c = "oneOf" -> "OneOf"
      [] c = "anyOf" -> "AnyOf"
      [] c = "allOf" -> "AllOf"
      [] c = "ext" -> "Ext"
      [] c = "defs" -> "Defs"
      [] c = "legacy" -> "Legacy"
      [] c = "fallback" -> "Fallback"
      [] OTHER -> c

\* String(n) for a natural number.
Digit(d) ==
    CASE d = 0 -> "0" [] d = 1 -> "1" [] d = 2 -> "2" [] d = 3 -> "3"
      [] d = 4 -> "4" [] d = 5 -> "5" [] d = 6 -> "6" [] d = 7 -> "7"
      [] d = 8 -> "8" [] OTHER -> "9"

RECURSIVE NatToStr(_)
NatToStr(n) ==
    IF n < 10 THEN <<Digit(n)>> ELSE NatToStr(n \div 10) \o <<Digit(n % 10)>>

\* toPascalCase: every non-alphanumeric character becomes a space, the string
\* is trimmed, the first character of every word is upper-cased and the spaces
\* are removed.  wordStart is TRUE at the start and after a space.
RECURSIVE PascalFrom(_, _)
PascalFrom(str, wordStart) ==
    IF str = <<>> THEN <<>>
    ELSE IF ~IsAlnum(Head(str)) THEN PascalFrom(Tail(str), TRUE)
    ELSE <<(IF wordStart THEN ToUpper(Head(str)) ELSE Head(str))>>
             \o PascalFrom(Tail(str), FALSE)

\* A plausible slip: the separators are kept instead of removed.
toPascalCaseKeepSeparators(str) ==
    [i \in 1..Len(str) |-> IF i = 1 THEN ToUpper(str[i]) ELSE str[i]]

toPascalCase(str) == PascalFrom(str, TRUE)

\* JavaScript truthiness of a string or of undefined: both undefined and ''
\* are falsy, and every caller of get/getBaseName only tests truthiness.
Undefined == <<>>
Truthy(s) == s # <<>>

(***************************************************************************)
(* Name registry (createTypeNameRegistry)                                  *)
(***************************************************************************)

\* A registry value: the two maps of the closure.
createTypeNameRegistry == [map |-> <<>>, count |-> <<>>]

\* Map.get(baseName) || 0
CountOf(count, baseName) ==
    IF baseName \in DOMAIN count THEN count[baseName] ELSE 0

\* Map.set(baseName, n)
SetCount(count, baseName, n) ==
    [b \in DOMAIN count \cup {baseName} |-> IF b = baseName THEN n ELSE count[b]]

\* Map.has(pointer)
Has(map, pointer) == \E i \in 1..Len(map) : map[i].pointer = pointer

EntryOf(map, pointer) ==
    map[CHOOSE i \in 1..Len(map) : map[i].pointer = pointer]

\* The name getUniqueTypeName returns for a base name whose counter is n.
UniqueNameNoSuffix(baseName, n) == baseName

UniqueName(baseName, n) ==
    IF n = 0 THEN baseName ELSE baseName \o <<"_">> \o NatToStr(n)

\* getUniqueTypeName: the returned name and the updated counters.
getUniqueTypeName(reg, baseName) ==
    [name |-> UniqueName(baseName, CountOf(reg.count, baseName)),
     count |-> SetCount(reg.count, baseName, CountOf(reg.count, baseName) + 1)]

\* A plausible slip: the counter is taken before the has() test, so every call
\* advances it.
registerCountsFirst(reg, pointer, name) ==
    LET u == getUniqueTypeName(reg, name) IN
    IF Has(reg.map, pointer)
    THEN [map |-> reg.map, count |-> u.count,
          result |-> EntryOf(reg.map, pointer).name]
    ELSE [map |-> Append(reg.map,
                         [pointer |-> pointer, name |-> u.name, baseName |-> name]),
          count |-> u.count, result |-> u.name]

\* register(pointer, name): the registry afterwards and the returned name.
register(reg, pointer, name) ==
    IF Has(reg.map, pointer)
    THEN [map |-> reg.map, count |-> reg.count,
          result |-> EntryOf(reg.map, pointer).name]
    ELSE LET u == getUniqueTypeName(reg, name) IN
         [map |-> Append(reg.map,
                         [pointer |-> pointer, name |-> u.name, baseName |-> name]),
          count |-> u.count, result |-> u.name]

\* get(pointer): the name, or undefined.
get(reg, pointer) ==
    IF Has(reg.map, pointer) THEN EntryOf(reg.map, pointer).name ELSE Undefined

\* getBaseName(pointer): the base name, or undefined.
getBaseName(reg, pointer) ==
    IF Has(reg.map, pointer) THEN EntryOf(reg.map, pointer).baseName ELSE Undefined

\* getAll(): pointer -> name, in insertion order.
getAll(reg) == [i \in 1..Len(reg.map) |->
                   [pointer |-> reg.map[i].pointer, name |-> reg.map[i].name]]

RECURSIVE Without(_, _)
Without(map, pointer) ==
    IF map = <<>> THEN <<>>
    ELSE IF Head(map).pointer = pointer THEN Without(Tail(map), pointer)
    ELSE <<Head(map)>> \o Without(Tail(map), pointer)

\* A plausible slip: delete gives the suffix back.
deleteReleasesCounter(reg, pointer) ==
    IF Has(reg.map, pointer)
    THEN LET b == EntryOf(reg.map, pointer).baseName IN
         [map |-> Without(reg.map, pointer),
          count |-> SetCount(reg.count, b, CountOf(reg.count, b) - 1)]
    ELSE [map |-> reg.map, count |-> reg.count]

\* delete(pointer)
delete(reg, pointer) == [map |-> Without(reg.map, pointer), count |-> reg.count]

\* The registry of the current state.
Registry == [map |-> jsonPointerToEntryMap, count |-> typeNameCount]

(***************************************************************************)
(* Schema documents (JsonSchema)                                           *)
(*                                                                         *)
(* An optional facet is <<>> when absent and <<value>> when present.       *)
(* title, $ref and type are strings, absent when empty (the code only      *)
(* tests their truthiness).  properties, definitions and $defs are lists   *)
(* of [key, value] in Object.entries order; oneOf, anyOf, allOf are lists  *)
(* of schemas.  items is <<"single", schema>> or <<"tuple", list>>;        *)
(* additionalProperties is <<"true">> or <<"schema", schema>>.  A type     *)
(* that is an array of names is typeList; const and the members of enum    *)
(* are [isString, text].                                                   *)
(***************************************************************************)

None == <<>>
Some(x) == <<x>>
IsSome(o) == o # <<>>
The(o) == o[1]

\* {}
Blank ==
    [title |-> <<>>, ref |-> <<>>, type |-> "", properties |-> None,
     required |-> {}, definitions |-> None, defs |-> None, items |-> None,
     additionalProperties |-> None, oneOf |-> None, anyOf |-> None,
     allOf |-> None, enum |-> None, const |-> None, typeList |-> None]

\* Fixed parts of pointers.
HashPart == <<"#">>
RootPointer == <<HashPart>>
DefinitionsPart == <<"definitions">>
DollarDefsPart == <<"$", "defs">>
PropertiesPart == <<"properties">>
ItemsPart == <<"items">>
AdditionalPropertiesPart == <<"additionalProperties">>
OneOfPart == <<"oneOf">>
AnyOfPart == <<"anyOf">>
AllOfPart == <<"allOf">>

\* ref.startsWith('#')
StartsWithHash(ref) == ref # <<>> /\ ref[1] # <<>> /\ ref[1][1] = "#"

\* parts[parts.length - 1] of ref.split('/')
LastPart(ref) == ref[Len(ref)]

(***************************************************************************)
(* resolvePointer                                                          *)
(***************************************************************************)

\* What a walk through the document can stand on.
NullValue == [tag |-> "null"]
SchemaValue(node) == [tag |-> "schema", node |-> node]
MapValue(pairs) == [tag |-> "map", pairs |-> pairs]
ListValue(list) == [tag |-> "list", list |-> list]

\* `part in current` and current[part], for one path segment.
Member(current, part) ==
    IF current.tag = "schema" THEN
        LET n == current.node IN
        IF part = PropertiesPart /\ IsSome(n.properties) THEN MapValue(The(n.properties))
        ELSE IF part = DefinitionsPart /\ IsSome(n.definitions)
            THEN MapValue(The(n.definitions))
        ELSE IF part = DollarDefsPart /\ IsSome(n.defs) THEN MapValue(The(n.defs))
        ELSE IF part = OneOfPart /\ IsSome(n.oneOf) THEN ListValue(The(n.oneOf))
        ELSE IF part = AnyOfPart /\ IsSome(n.anyOf) THEN ListValue(The(n.anyOf))
        ELSE IF part = AllOfPart /\ IsSome(n.allOf) THEN ListValue(The(n.allOf))
        ELSE IF part = ItemsPart /\ IsSome(n.items) THEN
            (IF n.items[1] = "single" THEN SchemaValue(n.items[2])
             ELSE ListValue(n.items[2]))
        ELSE IF part = AdditionalPropertiesPart /\ IsSome(n.additionalProperties)
                /\ n.additionalProperties[1] = "schema"
            THEN SchemaValue(n.additionalProperties[2])
        ELSE NullValue
    ELSE IF current.tag = "map" THEN
        IF \E i \in 1..Len(current.pairs) : current.pairs[i].key = part
        THEN SchemaValue(current.pairs[CHOOSE i \in 1..Len(current.pairs) :
                                           current.pairs[i].key = part].value)
        ELSE NullValue
    ELSE IF current.tag = "list" THEN
        IF \E i \in 1..Len(current.list) : NatToStr(i - 1) = part
        THEN SchemaValue(current.list[CHOOSE i \in 1..Len(current.list) :
                                          NatToStr(i - 1) = part])
        ELSE NullValue
    ELSE NullValue

RECURSIVE Walk(_, _)
Walk(current, pathParts) ==
    IF pathParts = <<>> THEN current
    ELSE LET next == Member(current, Head(pathParts)) IN
         IF next.tag = "null" THEN NullValue ELSE Walk(next, Tail(pathParts))

\* A plausible slip: a path that is not in the document resolves to {}.
resolvePointerNeverNull(root, pointer) ==
    LET v == IF pointer = RootPointer THEN SchemaValue(root)
             ELSE Walk(SchemaValue(root),
                       IF pointer[1] = HashPart THEN Tail(pointer) ELSE pointer)
    IN IF v.tag = "null" THEN SchemaValue(Blank) ELSE v

\* resolvePointer({root, pointer}): the value at the pointer, or null.
resolvePointer(root, pointer) ==
    IF pointer = RootPointer THEN SchemaValue(root)
    ELSE Walk(SchemaValue(root),
              IF pointer[1] = HashPart THEN Tail(pointer) ELSE pointer)

\* The value read as a JsonSchema: a map or a list has none of the facets
\* (no key of the model is the name of a facet).
AsSchema(v) == IF v.tag = "schema" THEN v.node ELSE Blank

\* resolveRef({ref, rootSchema}): the target, or {} when there is none.
resolveRef(ref, rootSchema) ==
    IF Len(ref) >= 3 /\ ref[1] = HashPart /\ ref[2] = DefinitionsPart THEN
        \* rootSchema.definitions?.[rest] || {} : the rest is one key
        (IF IsSome(rootSchema.definitions) /\ Len(ref) = 3
         THEN AsSchema(Member(MapValue(The(rootSchema.definitions)), ref[3]))
         ELSE Blank)
    ELSE IF Len(ref) >= 3 /\ ref[1] = HashPart /\ ref[2] = DollarDefsPart THEN
        (IF IsSome(rootSchema.defs) /\ Len(ref) = 3
         THEN AsSchema(Member(MapValue(The(rootSchema.defs)), ref[3]))
         ELSE Blank)
    ELSE IF Len(ref) >= 2 /\ ref[1] = HashPart THEN
        AsSchema(resolvePointer(rootSchema, ref))
    ELSE Blank

(***************************************************************************)
(* Pass 1: traverse                                                        *)
(***************************************************************************)

\* Set.add: insertion order, no duplicates.
SetAdd(set, x) ==
    IF \E i \in 1..Len(set) : set[i] = x THEN set ELSE Append(set, x)

\* pointer === '#' || pointer.includes('/definitions/') || pointer.includes('/$defs/')
isRootOrDefinition(pointer) ==
    \/ pointer = RootPointer
    \/ \E i \in 2..(Len(pointer) - 1) :
          pointer[i] = DefinitionsPart \/ pointer[i] = DollarDefsPart

\* A plausible slip: the title wins everywhere, not only at the root and in
\* definitions.
nameOfTitleFirst(node, pointer, suggestedName) ==
    IF Truthy(node.title) THEN toPascalCase(node.title) ELSE suggestedName

\* The name traverse determines for a location.
nameOf(node, pointer, suggestedName) ==
    IF Truthy(node.title) /\ isRootOrDefinition(pointer) THEN toPascalCase(node.title)
    ELSE IF ~Truthy(suggestedName) /\ Truthy(node.title) THEN toPascalCase(node.title)
    ELSE suggestedName

Child(node, pointer, suggestedName) ==
    [schema |-> node, pointer |-> pointer, suggestedName |-> suggestedName]

\* traverseDefinitions: the calls of traverse it makes, in order.
traverseDefinitions(node, pointer, parentName) ==
    (IF IsSome(node.definitions) THEN
        [i \in 1..Len(The(node.definitions)) |->
            LET e == The(node.definitions)[i] IN
            Child(e.value, pointer \o <<DefinitionsPart, e.key>>, toPascalCase(e.key))]
     ELSE <<>>)
    \o
    (IF IsSome(node.defs) THEN
        [i \in 1..Len(The(node.defs)) |->
            LET e == The(node.defs)[i] IN
            Child(e.value, pointer \o <<DollarDefsPart, e.key>>, toPascalCase(e.key))]
     ELSE <<>>)

\* A plausible slip: a property is suggested its own key only.
traversePropertiesNoPrefix(node, pointer, parentName) ==
    IF IsSome(node.properties) THEN
        [i \in 1..Len(The(node.properties)) |->
            LET e == The(node.properties)[i] IN
            Child(e.value, pointer \o <<PropertiesPart, e.key>>, toPascalCase(e.key))]
    ELSE <<>>

\* traverseProperties
traverseProperties(node, pointer, parentName) ==
    IF IsSome(node.properties) THEN
        [i \in 1..Len(The(node.properties)) |->
            LET e == The(node.properties)[i] IN
            Child(e.value, pointer \o <<PropertiesPart, e.key>>,
                  parentName \o toPascalCase(e.key))]
    ELSE <<>>

\* traverseItems
traverseItems(node, pointer, parentName) ==
    IF ~IsSome(node.items) THEN <<>>
    ELSE IF node.items[1] = "tuple" THEN
        [i \in 1..Len(node.items[2]) |->
            Child(node.items[2][i], pointer \o <<ItemsPart, NatToStr(i - 1)>>,
                  parentName \o <<"Item">> \o NatToStr(i - 1))]
    ELSE <<Child(node.items[2], pointer \o <<ItemsPart>>, parentName \o <<"Item">>)>>

\* traverseAdditionalProperties
traverseAdditionalProperties(node, pointer, parentName) ==
    IF IsSome(node.additionalProperties) /\ node.additionalProperties[1] = "schema"
    THEN <<Child(node.additionalProperties[2],
                 pointer \o <<AdditionalPropertiesPart>>, parentName \o <<"Value">>)>>
    ELSE <<>>

\* The members of one combinator: a member with a $ref is suggested no name.
CombinatorMembers(list, part, word, pointer, parentName) ==
    IF IsSome(list) THEN
        [i \in 1..Len(The(list)) |->
            Child(The(list)[i], pointer \o <<part, NatToStr(i - 1)>>,
                  IF Truthy(The(list)[i].ref) THEN <<>>
                  ELSE parentName \o <<word>> \o NatToStr(i - 1))]
    ELSE <<>>

\* traverseCombinators
traverseCombinators(node, pointer, parentName) ==
    CombinatorMembers(node.oneOf, OneOfPart, "Option", pointer, parentName)
    \o CombinatorMembers(node.anyOf, AnyOfPart, "Option", pointer, parentName)
    \o CombinatorMembers(node.allOf, AllOfPart, "Part", pointer, parentName)

\* traverse({schema, registry, references, pointer, suggestedName}).  st holds
\* the registry and the reference set the calls share.
RECURSIVE traverse(_, _, _, _)
RECURSIVE TraverseAll(_, _)

traverse(node, pointer, suggestedName, st) ==
    LET refs == IF Truthy(node.ref) THEN SetAdd(st.refs, node.ref) ELSE st.refs
        name == nameOf(node, pointer, suggestedName)
        reg  == IF Truthy(name)
                THEN register([map |-> st.map, count |-> st.count], pointer, name)
                ELSE [map |-> st.map, count |-> st.count]
    IN TraverseAll(traverseDefinitions(node, pointer, name)
                     \o traverseProperties(node, pointer, name)
                     \o traverseItems(node, pointer, name)
                     \o traverseAdditionalProperties(node, pointer, name)
                     \o traverseCombinators(node, pointer, name),
                   [map |-> reg.map, count |-> reg.count, refs |-> refs])

TraverseAll(children, st) ==
    IF children = <<>> THEN st
    ELSE TraverseAll(Tail(children),
                     traverse(Head(children).schema, Head(children).pointer,
                              Head(children).suggestedName, st))

(***************************************************************************)
(* Pass 2: registerMissingReferences                                       *)
(***************************************************************************)

\* A plausible slip: pass 2 registers nothing.
registerNoReferences(refs, reg) == [map |-> reg.map, count |-> reg.count]

RECURSIVE registerMissingReferences(_, _)
registerMissingReferences(refs, reg) ==
    IF refs = <<>> THEN [map |-> reg.map, count |-> reg.count]
    ELSE LET ref == Head(refs) IN
         IF ~StartsWithHash(ref) \/ Truthy(get(reg, ref))
         THEN registerMissingReferences(Tail(refs), reg)
         ELSE registerMissingReferences(
                  Tail(refs), register(reg, ref, toPascalCase(LastPart(ref))))

(***************************************************************************)
(* Pass 3: cleanupRedundantAliases                                         *)
(***************************************************************************)

\* A plausible slip: pass 3 is left out.
cleanupKeepsAliases(root, reg) == reg

\* Whether the entry at pointer is deleted, in the registry as it is then.
IsRedundantAlias(root, reg, pointer) ==
    LET fragment == resolvePointer(root, pointer) IN
    /\ fragment.tag # "null"
    /\ Truthy(AsSchema(fragment).ref)
    /\ StartsWithHash(AsSchema(fragment).ref)
    /\ Truthy(get(reg, AsSchema(fragment).ref))
    /\ Truthy(getBaseName(reg, pointer))
    /\ Truthy(getBaseName(reg, AsSchema(fragment).ref))
    /\ getBaseName(reg, pointer) = getBaseName(reg, AsSchema(fragment).ref)

\* The loop over allEntries, the keys getAll() returned before the loop.
RECURSIVE CleanupLoop(_, _, _)
CleanupLoop(root, allEntries, reg) ==
    IF allEntries = <<>> THEN reg
    ELSE CleanupLoop(root, Tail(allEntries),
                     IF IsRedundantAlias(root, reg, Head(allEntries))
                     THEN delete(reg, Head(allEntries)) ELSE reg)

cleanupRedundantAliases(root, reg) ==
    CleanupLoop(root, [i \in 1..Len(getAll(reg)) |-> getAll(reg)[i].pointer], reg)

(***************************************************************************)
(* Type expression builder                                                 *)
(*                                                                         *)
(* A result is the built text, the places where the text names a schema    *)
(* location (uses), and whether the call returns at all.                   *)
(* resolveLegacyRef calls the builder on the target of the reference with  *)
(* the fixed pointer "#/legacy-fallback"; the registry does not change     *)
(* while declarations are generated, so a call of resolveLegacyRef for a   *)
(* ref that an enclosing call of it is still resolving repeats that call   *)
(* for ever: the recursion has no guard, the call never returns and the    *)
(* engine ends it with a RangeError.  chain is the set of refs the         *)
(* enclosing calls are resolving.                                          *)
(***************************************************************************)

Result(text, uses) == [text |-> text, uses |-> uses, diverges |-> FALSE]
Diverged == [text |-> <<>>, uses |-> {}, diverges |-> TRUE]

\* One place where the expression names a location: how the name was found,
\* the pointer looked up, and the text put there.
Use(via, target, rendered, isName) ==
    [via |-> via, target |-> target, rendered |-> rendered, isName |-> isName]

\* Array.prototype.join over the texts of results.
RECURSIVE JoinTexts(_, _)
JoinTexts(texts, sep) ==
    IF texts = <<>> THEN <<>>
    ELSE IF Len(texts) = 1 THEN texts[1]
    ELSE texts[1] \o <<sep>> \o JoinTexts(Tail(texts), sep)

AnyDiverges(results) == \E i \in 1..Len(results) : results[i].diverges
AllUses(results) == UNION {results[i].uses : i \in 1..Len(results)}

\* String.prototype.includes for one of the separators the code writes.
Includes(text, chunk) == \E i \in 1..Len(text) : text[i] = chunk

\* typeDefinition.startsWith('{')
StartsWithBrace(text) == text # <<>> /\ text[1] = "{\n"

LegacyPointer == <<HashPart, <<"legacy", "-", "fallback">>>>

\* mapJsonTypeToTs
mapJsonTypeToTs(jsonType) ==
    CASE jsonType = "string" -> <<"string">>
      [] jsonType = "number" -> <<"number">>
      [] jsonType = "integer" -> <<"number">>
      [] jsonType = "boolean" -> <<"boolean">>
      [] jsonType = "null" -> <<"null">>
      [] jsonType = "array" -> <<"any[]">>
      [] jsonType = "object" -> <<"object">>
      [] OTHER -> <<"any">>

\* buildConstType
buildConstType(constValue) ==
    IF constValue.isString THEN <<"\"">> \o constValue.text \o <<"\"">>
    ELSE constValue.text

\* buildEnumType
buildEnumType(enumValues) ==
    JoinTexts([i \in 1..Len(enumValues) |-> buildConstType(enumValues[i])], " | ")

\* buildTypeArrayUnion
buildTypeArrayUnion(types) ==
    JoinTexts([i \in 1..Len(types) |-> mapJsonTypeToTs(types[i])], " | ")

\* hasObjectDefinition
hasObjectDefinition(node) ==
    IsSome(node.properties) \/ IsSome(node.additionalProperties) \/ node.type = "object"

\* resolved.type is truthy
HasType(node) == node.type # "" \/ IsSome(node.typeList)

RECURSIVE buildTypeFromSchema(_, _, _, _, _, _)

\* resolveLegacyRef
resolveLegacyRef(ref, rootSchema, reg, chain) ==
    LET resolved == resolveRef(ref, rootSchema)
        derived  == toPascalCase(LastPart(ref))
    IN IF ref \in chain THEN Diverged
       ELSE IF resolved # Blank /\ HasType(resolved) /\ ~IsSome(resolved.properties)
               /\ ~IsSome(resolved.items) /\ ~IsSome(resolved.oneOf)
       THEN LET r == buildTypeFromSchema(resolved, rootSchema, reg, LegacyPointer,
                                         FALSE, chain \cup {ref})
            IN IF r.diverges THEN Diverged
               ELSE Result(r.text,
                           r.uses \cup {Use("legacy", ref, r.text, FALSE)})
       ELSE Result(derived, {Use("legacy", ref, derived, TRUE)})

\* A plausible slip: the name is derived from the pointer although the target
\* is registered.
buildReferenceTypeFromPointerText(ref, rootSchema, reg, chain) ==
    Result(toPascalCase(LastPart(ref)),
           {Use("ref", ref, toPascalCase(LastPart(ref)), TRUE)})

\* buildReferenceType
buildReferenceType(ref, rootSchema, reg, chain) ==
    IF Truthy(get(reg, ref))
    THEN Result(get(reg, ref), {Use("ref", ref, get(reg, ref), TRUE)})
    ELSE resolveLegacyRef(ref, rootSchema, reg, chain)

\* The builds of the members of a list, each under pointer/<part>/<index>.
BuildMembers(list, part, rootSchema, reg, pointer, chain) ==
    [i \in 1..Len(list) |->
        buildTypeFromSchema(list[i], rootSchema, reg,
                            pointer \o <<part, NatToStr(i - 1)>>, TRUE, chain)]

\* buildUnionType
buildUnionType(schemas, part, rootSchema, reg, pointer, chain) ==
    LET types == BuildMembers(schemas, part, rootSchema, reg, pointer, chain) IN
    IF AnyDiverges(types) THEN Diverged
    ELSE Result(JoinTexts([i \in 1..Len(types) |-> types[i].text], " | "),
                AllUses(types))

\* meaningfulTypes: the members that are neither 'any' nor 'unknown'.
RECURSIVE Meaningful(_)
Meaningful(texts) ==
    IF texts = <<>> THEN <<>>
    ELSE IF Head(texts) = <<"any">> \/ Head(texts) = <<"unknown">>
         THEN Meaningful(Tail(texts))
         ELSE <<Head(texts)>> \o Meaningful(Tail(texts))

\* buildIntersectionType: null is the empty text.
buildIntersectionType(schemas, rootSchema, reg, pointer, chain) ==
    LET types == BuildMembers(schemas, AllOfPart, rootSchema, reg, pointer, chain) IN
    IF AnyDiverges(types) THEN Diverged
    ELSE Result(JoinTexts(Meaningful([i \in 1..Len(types) |-> types[i].text]), " & "),
                AllUses(types))

\* buildObjectType, called with properties or additionalProperties present.
buildObjectType(node, rootSchema, reg, pointer, chain) ==
    LET props == IF IsSome(node.properties) THEN The(node.properties) ELSE <<>>
        propTypes ==
            [i \in 1..Len(props) |->
                buildTypeFromSchema(props[i].value, rootSchema, reg,
                                    pointer \o <<PropertiesPart, props[i].key>>,
                                    TRUE, chain)]
        propLines ==
            [i \in 1..Len(props) |->
                <<"  ">> \o props[i].key
                    \o (IF props[i].key \in node.required THEN <<>> ELSE <<"?">>)
                    \o <<": ">> \o propTypes[i].text \o <<";">>]
        addl == node.additionalProperties
        valueType ==
            IF IsSome(addl) /\ addl[1] = "schema"
            THEN <<buildTypeFromSchema(addl[2], rootSchema, reg,
                                       pointer \o <<AdditionalPropertiesPart>>,
                                       TRUE, chain)>>
            ELSE <<>>
        indexLines ==
            IF ~IsSome(addl) THEN <<>>
            ELSE IF addl[1] = "schema"
                 THEN << <<"  [key: string]: ">> \o valueType[1].text \o <<";">> >>
                 ELSE << <<"  [key: string]: any;">> >>
    IN IF AnyDiverges(propTypes) \/ AnyDiverges(valueType) THEN Diverged
       ELSE Result(<<"{\n">> \o JoinTexts(propLines \o indexLines, "\n") \o <<"\n}">>,
                   AllUses(propTypes) \cup AllUses(valueType))

\* buildArrayType
buildArrayType(node, rootSchema, reg, pointer, chain) ==
    IF ~IsSome(node.items) THEN Result(<<"any[]">>, {})
    ELSE IF node.items[1] = "tuple" THEN
        LET types == BuildMembers(node.items[2], ItemsPart, rootSchema, reg,
                                  pointer, chain) IN
        IF AnyDiverges(types) THEN Diverged
        ELSE Result(<<"[">> \o JoinTexts([i \in 1..Len(types) |-> types[i].text], ", ")
                        \o <<"]">>,
                    AllUses(types))
    ELSE
        LET item == buildTypeFromSchema(node.items[2], rootSchema, reg,
                                        pointer \o <<ItemsPart>>, TRUE, chain) IN
        IF item.diverges THEN Diverged
        ELSE IF Includes(item.text, " | ") \/ Includes(item.text, " & ")
        THEN Result(<<"(">> \o item.text \o <<")">> \o <<"[]">>, item.uses)
        ELSE Result(item.text \o <<"[]">>, item.uses)

\* Steps 3 to 9 of buildTypeFromSchema: a fragment without $ref that no
\* registry entry stands for.
BuildInline(node, rootSchema, reg, pointer, chain) ==
    LET combinator ==
            IF IsSome(node.oneOf)
            THEN buildUnionType(The(node.oneOf), OneOfPart, rootSchema, reg, pointer, chain)
            ELSE IF IsSome(node.anyOf)
            THEN buildUnionType(The(node.anyOf), AnyOfPart, rootSchema, reg, pointer, chain)
            ELSE IF IsSome(node.allOf)
            THEN buildIntersectionType(The(node.allOf), rootSchema, reg, pointer, chain)
            ELSE Result(<<>>, {})
        object ==
            IF hasObjectDefinition(node) THEN
                IF IsSome(node.properties) \/ IsSome(node.additionalProperties)
                THEN buildObjectType(node, rootSchema, reg, pointer, chain)
                ELSE IF node.type = "object" /\ ~Truthy(combinator.text)
                THEN Result(<<"Record<string, any>">>, {})
                ELSE Result(<<>>, {})
            ELSE Result(<<>>, {})
    IN IF combinator.diverges \/ object.diverges THEN Diverged
       ELSE IF Truthy(object.text) /\ Truthy(combinator.text)
       THEN Result(object.text \o <<" & ">> \o <<"(">> \o combinator.text \o <<")">>,
                   object.uses \cup combinator.uses)
       ELSE IF Truthy(combinator.text) THEN Result(combinator.text, combinator.uses)
       ELSE IF Truthy(object.text) THEN Result(object.text, object.uses)
       ELSE IF IsSome(node.const) THEN Result(buildConstType(The(node.const)), {})
       ELSE IF IsSome(node.enum) THEN Result(buildEnumType(The(node.enum)), {})
       ELSE IF IsSome(node.typeList) THEN Result(buildTypeArrayUnion(The(node.typeList)), {})
       ELSE IF node.type = "string" THEN Result(<<"string">>, {})
       ELSE IF node.type = "number" \/ node.type = "integer" THEN Result(<<"number">>, {})
       ELSE IF node.type = "boolean" THEN Result(<<"boolean">>, {})
       ELSE IF node.type = "null" THEN Result(<<"null">>, {})
       ELSE IF node.type = "array"
       THEN buildArrayType(node, rootSchema, reg, pointer, chain)
       ELSE Result(<<"any">>, {})

\* buildTypeFromSchema(context)
buildTypeFromSchema(node, rootSchema, reg, pointer, lookupInRegistry, chain) ==
    IF lookupInRegistry /\ Truthy(get(reg, pointer))
    THEN Result(get(reg, pointer), {Use("lookup", pointer, get(reg, pointer), TRUE)})
    ELSE IF Truthy(node.ref) THEN buildReferenceType(node.ref, rootSchema, reg, chain)
    ELSE BuildInline(node, rootSchema, reg, pointer, chain)

\* generateJSDoc, for a schema whose only metadata is its title.
generateJSDoc(node) ==
    IF Truthy(node.title) THEN <<"/**\n * ">> \o node.title \o <<"\n */\n">> ELSE <<>>

\* A plausible slip: the enum and const test is left out.
shouldUseTypeAliasForgetsLiterals(node, typeDefinition) ==
    \/ node.type \in {"string", "number", "boolean", "array"}
    \/ IsSome(node.typeList)
    \/ IsSome(node.oneOf) \/ IsSome(node.anyOf) \/ IsSome(node.allOf)
    \/ Includes(typeDefinition, " & ")
    \/ node.type # "object" \/ ~StartsWithBrace(typeDefinition)

\* shouldUseTypeAlias
shouldUseTypeAlias(node, typeDefinition) ==
    \/ IsSome(node.enum) \/ IsSome(node.const)
    \/ node.type \in {"string", "number", "boolean", "array"}
    \/ IsSome(node.typeList)
    \/ IsSome(node.oneOf) \/ IsSome(node.anyOf) \/ IsSome(node.allOf)
    \/ Includes(typeDefinition, " & ")
    \/ node.type # "object" \/ ~StartsWithBrace(typeDefinition)

\* getDeclarationParts
getDeclarationParts(isTypeAlias) ==
    [keyword |-> IF isTypeAlias THEN "type" ELSE "interface",
     separator |-> IF isTypeAlias THEN " = " ELSE " "]

\* generateTypeDefinition: definition and typeName as returned; the other
\* fields keep what the definition was made of.
generateTypeDefinition(name, node, rootSchema, reg, pointer) ==
    LET built == buildTypeFromSchema(node, rootSchema, reg, pointer, FALSE, {})
        isTypeAlias == shouldUseTypeAlias(node, built.text)
        parts == getDeclarationParts(isTypeAlias)
    IN [definition |-> generateJSDoc(node) \o <<parts.keyword, " ">> \o name
                          \o <<parts.separator>> \o built.text,
        typeName |-> name,
        pointer |-> pointer,
        expression |-> built.text,
        isTypeAlias |-> isTypeAlias,
        uses |-> built.uses,
        diverges |-> built.diverges]

(***************************************************************************)
(* Array.prototype.sort() on pointers: by UTF-16 code units of the strings *)
(***************************************************************************)

\* The code units of one chunk.
CodeUnits(chunk) ==
    CASE chunk = "#" -> <<35>>
      [] chunk = "$" -> <<36>>
      [] chunk = "-" -> <<45>>
      [] chunk = "/" -> <<47>>
      [] chunk = "_" -> <<95>>
      [] chunk = "a" -> <<97>>
      [] chunk = "b" -> <<98>>
      [] chunk = "s" -> <<115>>
      [] chunk = "A" -> <<65>>
      [] chunk = "B" -> <<66>>
      [] chunk = "S" -> <<83>>
      [] chunk = "R" -> <<82>>
      [] chunk = "0" -> <<48>>
      [] chunk = "1" -> <<49>>
      [] chunk = "2" -> <<50>>
      [] chunk = "3" -> <<51>>
      [] chunk = "4" -> <<52>>
      [] chunk = "5" -> <<53>>
      [] chunk = "6" -> <<54>>
      [] chunk = "7" -> <<55>>
      [] chunk = "8" -> <<56>>
      [] chunk = "9" -> <<57>>
      [] chunk = "definitions" -> <<100, 101, 102, 105, 110, 105, 116, 105, 111, 110, 115>>
      [] chunk = "properties" -> <<112, 114, 111, 112, 101, 114, 116, 105, 101, 115>>
      [] chunk = "items" -> <<105, 116, 101, 109, 115>>
      [] chunk = "additionalProperties" -> <<97, 100, 100, 105, 116, 105, 111, 110, 97, 108, 80, 114, 111, 112, 101, 114, 116, 105, 101, 115>>
      [] chunk = "oneOf" -> <<111, 110, 101, 79, 102>>
      [] chunk = "anyOf" -> <<97, 110, 121, 79, 102>>
      [] chunk = "allOf" -> <<97, 108, 108, 79, 102>>
      [] chunk = "defs" -> <<100, 101, 102, 115>>
      [] chunk = "ext" -> <<101, 120, 116>>
      [] chunk = "legacy" -> <<108, 101, 103, 97, 99, 121>>
      [] chunk = "fallback" -> <<102, 97, 108, 108, 98, 97, 99, 107>>
      [] OTHER -> <<>>

RECURSIVE StrUnits(_)
StrUnits(str) == IF str = <<>> THEN <<>> ELSE CodeUnits(Head(str)) \o StrUnits(Tail(str))

\* The code units of the pointer string: its parts joined by "/".
RECURSIVE PointerUnits(_)
PointerUnits(pointer) ==
    IF pointer = <<>> THEN <<>>
    ELSE IF Len(pointer) = 1 THEN StrUnits(pointer[1])
    ELSE StrUnits(pointer[1]) \o CodeUnits("/") \o PointerUnits(Tail(pointer))

\* a < b for strings given by their code units.
RECURSIVE UnitsLess(_, _)
UnitsLess(a, b) ==
    IF b = <<>> THEN FALSE
    ELSE IF a = <<>> THEN TRUE
    ELSE IF Head(a) # Head(b) THEN Head(a) < Head(b)
    ELSE UnitsLess(Tail(a), Tail(b))

PointerLess(p, q) == UnitsLess(PointerUnits(p), PointerUnits(q))

RECURSIVE InsertSorted(_, _)
InsertSorted(sorted, p) ==
    IF sorted = <<>> THEN <<p>>
    ELSE IF PointerLess(p, Head(sorted)) THEN <<p>> \o sorted
    ELSE <<Head(sorted)>> \o InsertSorted(Tail(sorted), p)

\* A plausible slip: the keys are left in the order getAll() returns them.
SortPointersKeepsOrder(pointers) == pointers

\* A plausible slip: the last key is left out.
SortPointersButLast(pointers) ==
    IF pointers = <<>> THEN <<>>
    ELSE [i \in 1..(Len(pointers) - 1) |-> pointers[i]]

RECURSIVE SortPointers(_)
SortPointers(pointers) ==
    IF pointers = <<>> THEN <<>>
    ELSE InsertSorted(SortPointers(Tail(pointers)), Head(pointers))

(***************************************************************************)
(* The documents processed                                                 *)
(***************************************************************************)

KeyUpperS == <<"S">>
KeyLowerS == <<"s">>
KeyDash == <<"-">>
KeyA == <<"a">>

DefUpperS == <<HashPart, DefinitionsPart, KeyUpperS>>
DefLowerS == <<HashPart, DefinitionsPart, KeyLowerS>>
DefDash == <<HashPart, DefinitionsPart, KeyDash>>
\* A path no document has, and a reference into another document.
DefMissing == <<HashPart, DefinitionsPart, <<"B">>>>
External == << <<"ext", "#">>, DefinitionsPart, KeyUpperS>>

StringType == [Blank EXCEPT !.type = "string"]
RefTo(target) == [Blank EXCEPT !.ref = target]
TypedRefTo(target) == [Blank EXCEPT !.type = "string", !.ref = target]
TitledString == [Blank EXCEPT !.title = <<"S">>, !.type = "string"]
ObjectOf(props) == [Blank EXCEPT !.type = "object", !.properties = Some(props)]
Entry(key, value) == [key |-> key, value |-> value]

\* What a definition can be.
DefinitionValues ==
    {StringType, TitledString, RefTo(DefUpperS), TypedRefTo(DefUpperS), RefTo(DefLowerS)}

DefinitionKeys == {KeyUpperS, KeyLowerS, KeyDash}

\* definitions: absent, or one or two entries, in either order.
DefinitionLists ==
    {None}
    \cup {Some(<<Entry(k, v)>>) : k \in DefinitionKeys, v \in DefinitionValues}
    \cup {Some(<<Entry(kv[1], kv[2]), Entry(kv[3], kv[4])>>) :
            kv \in {x \in DefinitionKeys \X DefinitionValues
                            \X DefinitionKeys \X DefinitionValues : x[1] # x[3]}}

\* What the first property can be.
PropertyValues ==
    {StringType, RefTo(DefUpperS), RefTo(DefLowerS), RefTo(DefDash), RefTo(RootPointer),
     RefTo(DefMissing), RefTo(External),
     ObjectOf(<<Entry(KeyA, StringType)>>),
     [Blank EXCEPT !.oneOf = Some(<<RefTo(DefUpperS), StringType>>)],
     [Blank EXCEPT !.type = "array", !.items = <<"single", RefTo(DefUpperS)>>]}

\* What a second property can be.
SecondPropertyValues == {StringType, RefTo(DefUpperS), RefTo(DefLowerS)}

\* properties: absent, or "s", or "s" and "a".
PropertyLists ==
    {None}
    \cup {Some(<<Entry(KeyLowerS, v)>>) : v \in PropertyValues}
    \cup {Some(<<Entry(KeyLowerS, v), Entry(KeyA, w)>>) :
            v \in SecondPropertyValues, w \in SecondPropertyValues}

RootTitles == {<<>>, <<"R">>}

\* Roots with definitions and properties drawn from the lists above.
PlainDocuments ==
    {[Blank EXCEPT !.title = t, !.type = "object", !.definitions = d, !.properties = p] :
        t \in RootTitles, d \in DefinitionLists, p \in PropertyLists}

\* A root R whose property "s" is suggested the name RS, and a definition
\* whose key asks for RS too; the properties refer to the definition.
KeyRS == <<"R", "S">>
DefRS == <<HashPart, DefinitionsPart, KeyRS>>

AliasDocuments ==
    {[Blank EXCEPT !.title = <<"R">>, !.type = "object", !.definitions = Some(d),
                   !.properties = Some(p)] :
        d \in {<<Entry(KeyRS, StringType)>>,
               <<Entry(KeyRS, StringType), Entry(KeyUpperS, StringType)>>,
               <<Entry(KeyUpperS, RefTo(DefRS)), Entry(KeyRS, StringType)>>},
        p \in {<<Entry(KeyLowerS, RefTo(DefRS))>>,
               <<Entry(KeyLowerS, TypedRefTo(DefRS))>>,
               <<Entry(KeyLowerS, RefTo(DefRS)), Entry(KeyA, RefTo(DefRS))>>,
               <<Entry(KeyA, RefTo(DefRS)), Entry(KeyLowerS, RefTo(DefRS))>>}}

\* A $ref that carries a title as well.
TitledRefTo(target) == [Blank EXCEPT !.title = <<"A">>, !.ref = target]

CombinatorMemberLists ==
    {<<RefTo(DefUpperS), StringType>>,
     <<StringType, RefTo(DefUpperS)>>,
     <<TitledRefTo(DefUpperS), RefTo(DefUpperS)>>}

\* A fragment with one combinator over the members.
WithCombinator(node, part, members) ==
    IF part = OneOfPart THEN [node EXCEPT !.oneOf = Some(members)]
    ELSE IF part = AnyOfPart THEN [node EXCEPT !.anyOf = Some(members)]
    ELSE [node EXCEPT !.allOf = Some(members)]

\* A root R with the definition S and a combinator, at the root or in the
\* property "s", whose members refer to S.
CombinatorDocuments ==
    LET root == [Blank EXCEPT !.title = <<"R">>, !.type = "object",
                              !.definitions = Some(<<Entry(KeyUpperS, StringType)>>)]
    IN {WithCombinator(root, part, m) :
            part \in {OneOfPart, AnyOfPart, AllOfPart}, m \in CombinatorMemberLists}
       \cup
       {[root EXCEPT !.properties =
                        Some(<<Entry(KeyLowerS, WithCombinator(Blank, part, m))>>)] :
            part \in {OneOfPart, AnyOfPart, AllOfPart}, m \in CombinatorMemberLists}

\* A root R with a definition S that is an object with the property "a",
\* titled or not, and maybe a property "s" that refers to S.
NestedDocuments ==
    {[Blank EXCEPT !.title = <<"R">>, !.type = "object",
                   !.definitions = Some(<<Entry(KeyUpperS, ObjectOf(<<Entry(KeyA, v)>>))>>),
                   !.properties = p] :
        v \in {StringType, TitledString, RefTo(DefUpperS)},
        p \in {None, Some(<<Entry(KeyLowerS, RefTo(DefUpperS))>>)}}

\* A root B that refers to the path "#/definitions/B", which it does not
\* have: the name derived from the path is taken by the root.
MissingDocuments ==
    {[Blank EXCEPT !.title = <<"B">>, !.type = "object", !.definitions = d,
                   !.properties = Some(p)] :
        d \in {None, Some(<<Entry(KeyUpperS, StringType)>>)},
        p \in {<<Entry(KeyLowerS, RefTo(DefMissing))>>,
               <<Entry(KeyLowerS, RefTo(DefMissing)), Entry(KeyA, StringType)>>,
               <<Entry(KeyLowerS,
                       [Blank EXCEPT !.oneOf = Some(<<RefTo(DefMissing), StringType>>)])>>}}

\* A root R whose property "s" carries any subset of the facets properties,
\* additionalProperties, oneOf, anyOf and allOf, and no $ref.
FacetDocuments ==
    LET number == [Blank EXCEPT !.type = "number"]
        boolean == [Blank EXCEPT !.type = "boolean"]
    IN {[Blank EXCEPT !.title = <<"R">>, !.type = "object",
                      !.properties =
                          Some(<<Entry(KeyLowerS,
                                       [Blank EXCEPT !.properties = f[1],
                                                     !.additionalProperties = f[2],
                                                     !.oneOf = f[3],
                                                     !.anyOf = f[4],
                                                     !.allOf = f[5]])>>)] :
            f \in {None, Some(<<Entry(KeyA, StringType)>>)}
                    \X {None, <<"true">>, <<"schema", number>>}
                    \X {None, Some(<<StringType, number>>)}
                    \X {None, Some(<<number, boolean>>)}
                    \X {None, Some(<<ObjectOf(<<Entry(KeyA, number)>>), Blank>>)}}

\* What the declaration decider tells apart: a root R whose property "s" has
\* a type or none, properties or none, an enum, a const, an allOf; and an
\* untitled root whose property "-" is an object that holds an intersection
\* in a property line and is declared because "a" refers to it.
DeciderDocuments ==
    LET number == [Blank EXCEPT !.type = "number"]
        dash == <<HashPart, PropertiesPart, KeyDash>>
    IN {[Blank EXCEPT !.title = <<"R">>, !.type = "object",
                      !.properties =
                          Some(<<Entry(KeyLowerS,
                                       [Blank EXCEPT !.type = f[1],
                                                     !.properties = f[2],
                                                     !.enum = f[3],
                                                     !.const = f[4],
                                                     !.allOf = f[5]])>>)] :
            f \in {"object", "", "string"}
                    \X {None, Some(<<Entry(KeyA, StringType)>>)}
                    \X {None, Some(<<[isString |-> TRUE, text |-> <<"a">>]>>)}
                    \X {None, Some([isString |-> FALSE, text |-> <<"1">>])}
                    \X {None, Some(<<ObjectOf(<<Entry(KeyA, number)>>)>>)}}
       \cup
       {[Blank EXCEPT !.type = "object",
                      !.properties =
                          Some(<<Entry(KeyDash,
                                       ObjectOf(<<Entry(KeyDash,
                                                        [Blank EXCEPT !.allOf =
                                                            Some(<<StringType, number>>)])>>)),
                                 Entry(KeyA, RefTo(dash))>>)]}

\* Two branches of the root, each an object with one property titled
\* "Status"; the keys are letters, or have no alphanumeric character.
StatusDocuments ==
    LET status == [Blank EXCEPT !.title = <<"Status">>, !.type = "string"]
    IN {[Blank EXCEPT !.title = t, !.type = "object",
                      !.properties =
                          Some(<<Entry(k[1][1], ObjectOf(<<Entry(k[2], status)>>)),
                                 Entry(k[1][2], ObjectOf(<<Entry(k[2], status)>>))>>)] :
            t \in RootTitles,
            k \in {<<KeyA, KeyLowerS>>, <<KeyDash, <<"-", "-">>>>} \X {KeyA, KeyDash}}

\* The shape of the README's example: a titled object root with a primitive
\* property "a", a property "s" that is a oneOf of two const members, and a
\* nested object property "b".
ReadmeDocument ==
    [Blank EXCEPT !.title = <<"R">>, !.type = "object",
                  !.properties =
                      Some(<<Entry(KeyA, StringType),
                             Entry(KeyLowerS,
                                   [Blank EXCEPT !.oneOf =
                                       Some(<<[Blank EXCEPT !.const =
                                                  Some([isString |-> TRUE, text |-> <<"A">>])],
                                              [Blank EXCEPT !.const =
                                                  Some([isString |-> TRUE, text |-> <<"B">>])]>>)]),
                             Entry(<<"b">>, ObjectOf(<<Entry(KeyA, StringType)>>))>>)]

\* A root R with a property whose key is the word "definitions", an object
\* with the property "a", titled or not.
KeywordKeyDocuments ==
    {[Blank EXCEPT !.title = <<"R">>, !.type = "object",
                   !.properties =
                       Some(<<Entry(DefinitionsPart, ObjectOf(<<Entry(KeyA, v)>>))>>)] :
        v \in {StringType, TitledString}}

\* A definition S that is solely a reference into another document, in a
\* root that may refer to S.
ExternalDocuments ==
    {[Blank EXCEPT !.title = t, !.type = "object",
                   !.definitions = Some(<<Entry(KeyUpperS, RefTo(External))>>),
                   !.properties = p] :
        t \in RootTitles,
        p \in {None, Some(<<Entry(KeyLowerS, RefTo(DefUpperS))>>)}}

\* A chain of aliases with equal base names: the property "s" of the root R
\* refers to the definition RS, which refers to the $defs entry RS.
ChainDocuments ==
    {[Blank EXCEPT !.title = <<"R">>, !.type = "object",
                   !.definitions = Some(<<Entry(KeyRS, RefTo(<<HashPart, DollarDefsPart, KeyRS>>))>>),
                   !.defs = Some(<<Entry(KeyRS, v)>>),
                   !.properties = Some(<<Entry(KeyLowerS, RefTo(DefRS))>>)] :
        v \in {StringType, RefTo(DefRS)}}

Documents ==
    PlainDocuments \cup AliasDocuments \cup CombinatorDocuments \cup NestedDocuments
        \cup MissingDocuments \cup FacetDocuments \cup DeciderDocuments
        \cup StatusDocuments \cup {ReadmeDocument} \cup KeywordKeyDocuments
        \cup ExternalDocuments \cup ChainDocuments

(***************************************************************************)
(* processSchemaFile                                                       *)
(***************************************************************************)

\* The values of generatedTypesExportsFormat.
ExportFormats == {"UNIQUE_EXPORTS", "ROOT_ONLY"}
Configs == {[generatedTypesExportsFormat |-> f] : f \in ExportFormats}

\* processSchemaFile is not handed the configuration; on its own it runs
\* under this one.
DefaultConfig == [generatedTypesExportsFormat |-> "UNIQUE_EXPORTS"]

Init ==
    /\ schema \in Documents
    /\ jsonPointerToEntryMap = createTypeNameRegistry.map
    /\ typeNameCount = createTypeNameRegistry.count
    /\ calls = <<>>
    /\ references = <<>>
    /\ pc = "pass1"
    /\ typeDefinitions = <<>>
    /\ exportedTypes = <<>>
    /\ sortedPointers = <<>>
    /\ written = <<>>
    /\ error = ""
    /\ config = DefaultConfig
    /\ schemaFiles = <<>>
    /\ outcomes = <<>>

\* scanSchema, pass 1: traverse from the root with no suggested name.
Traverse ==
    /\ pc = "pass1"
    /\ LET st == traverse(schema, RootPointer, <<>>,
                          [map |-> jsonPointerToEntryMap, count |-> typeNameCount,
                           refs |-> references])
       IN /\ jsonPointerToEntryMap' = st.map
          /\ typeNameCount' = st.count
          /\ references' = st.refs
    /\ pc' = "pass2"
    /\ UNCHANGED <<batchVars, calls, schema, typeDefinitions, exportedTypes, sortedPointers,
                   written, error>>

\* scanSchema, pass 2.
RegisterMissingReferences ==
    /\ pc = "pass2"
    /\ LET reg == registerMissingReferences(references, Registry)
       IN /\ jsonPointerToEntryMap' = reg.map
          /\ typeNameCount' = reg.count
    /\ pc' = "pass3"
    /\ UNCHANGED <<batchVars, calls, schema, references, typeDefinitions, exportedTypes,
                   sortedPointers, written, error>>

\* scanSchema, pass 3.
CleanupRedundantAliases ==
    /\ pc = "pass3"
    /\ LET reg == cleanupRedundantAliases(schema, Registry)
       IN /\ jsonPointerToEntryMap' = reg.map
          /\ typeNameCount' = reg.count
    /\ pc' = "scanned"
    /\ UNCHANGED <<batchVars, calls, schema, references, typeDefinitions, exportedTypes,
                   sortedPointers, written, error>>

\* processSchemaFile: the sorted keys of getAll().
Sort ==
    /\ pc = "scanned"
    /\ sortedPointers' =
           SortPointers([i \in 1..Len(getAll(Registry)) |-> getAll(Registry)[i].pointer])
    /\ pc' = "generate"
    /\ UNCHANGED <<batchVars, registryVars, calls, schema, references, typeDefinitions,
                   exportedTypes, written, error>>

\* The declaration of the next pointer of the loop.
NextDeclaration ==
    generateTypeDefinition(get(Registry, Head(sortedPointers)),
                           AsSchema(resolvePointer(schema, Head(sortedPointers))),
                           schema, Registry, Head(sortedPointers))

\* One turn of the loop: the fragment is there and its declaration is pushed.
Generate ==
    /\ pc = "generate"
    /\ sortedPointers # <<>>
    /\ resolvePointer(schema, Head(sortedPointers)).tag # "null"
    /\ ~NextDeclaration.diverges
    /\ typeDefinitions' = Append(typeDefinitions, NextDeclaration)
    /\ exportedTypes' = Append(exportedTypes, NextDeclaration.typeName)
    /\ sortedPointers' = Tail(sortedPointers)
    /\ UNCHANGED <<batchVars, registryVars, calls, schema, references, pc, written, error>>

\* One turn of the loop: resolvePointer returned null, nothing is pushed.
SkipUnresolved ==
    /\ pc = "generate"
    /\ sortedPointers # <<>>
    /\ resolvePointer(schema, Head(sortedPointers)).tag = "null"
    /\ sortedPointers' = Tail(sortedPointers)
    /\ UNCHANGED <<batchVars, registryVars, calls, schema, references, pc, typeDefinitions,
                   exportedTypes, written, error>>

\* One turn of the loop: the builder never returns, the engine throws and
\* processSchemaFile ends with the error, which toTypes catches and logs.
GenerateThrows ==
    /\ pc = "generate"
    /\ sortedPointers # <<>>
    /\ resolvePointer(schema, Head(sortedPointers)).tag # "null"
    /\ NextDeclaration.diverges
    /\ pc' = "failed"
    /\ error' = "RangeError"
    /\ UNCHANGED <<batchVars, registryVars, calls, schema, references, typeDefinitions,
                   exportedTypes, sortedPointers, written>>

\* [...new Set(exportedTypes)]
RECURSIVE Unique(_)
Unique(names) ==
    IF names = <<>> THEN <<>>
    ELSE LET rest == Unique([i \in 1..(Len(names) - 1) |-> names[i]]) IN
         SetAdd(rest, names[Len(names)])

\* After the loop: writeOutputFile when there is a declaration.
WriteOutputFile ==
    /\ pc = "generate"
    /\ sortedPointers = <<>>
    /\ written' = IF Len(typeDefinitions) > 0
                  THEN <<[typeDefinitions |->
                             [i \in 1..Len(typeDefinitions) |-> typeDefinitions[i].definition],
                          uniqueExports |-> Unique(exportedTypes)]>>
                  ELSE <<>>
    /\ pc' = "done"
    /\ UNCHANGED <<batchVars, registryVars, calls, schema, references, typeDefinitions,
                   exportedTypes, sortedPointers, error>>

Next ==
    \/ Traverse
    \/ RegisterMissingReferences
    \/ CleanupRedundantAliases
    \/ Sort
    \/ Generate
    \/ SkipUnresolved
    \/ GenerateThrows
    \/ WriteOutputFile

Spec == Init /\ [][Next]_vars

(***************************************************************************)
(* Properties of processSchemaFile                                         *)
(***************************************************************************)

Declarations == {typeDefinitions[i] : i \in 1..Len(typeDefinitions)}
Entries == {jsonPointerToEntryMap[i] : i \in 1..Len(jsonPointerToEntryMap)}

\* The declarations of a document are complete once the loop has ended.
Emitted == pc = "done"

\* C1: the declarations emitted for a document have pairwise distinct names.
C1_DeclarationNamesDistinct ==
    \A i, j \in 1..Len(typeDefinitions) :
        i # j => typeDefinitions[i].typeName # typeDefinitions[j].typeName

\* C1 happens: a document was emitted with two declarations whose entries
\* requested the same base name.
C1_Witness ==
    /\ Emitted
    /\ \E d, e \in Declarations :
          /\ d.pointer # e.pointer
          /\ getBaseName(Registry, d.pointer) = getBaseName(Registry, e.pointer)

\* C3: a $ref whose target pointer has a registry entry is rendered as exactly
\* the assigned name that entry holds.
C3_RefRendersAssignedName ==
    \A d \in Declarations : \A u \in d.uses :
        (u.via \in {"ref", "legacy"} /\ Has(jsonPointerToEntryMap, u.target))
            => u.rendered = EntryOf(jsonPointerToEntryMap, u.target).name

\* C4: every name an emitted expression uses to refer to a schema location
\* is the name of a declaration emitted for the same document.
C4_UsedNamesAreDeclared ==
    Emitted =>
        \A d \in Declarations : \A u \in d.uses :
            u.isName => \E e \in Declarations : e.typeName = u.rendered

ResolvableEntries ==
    {e \in Entries : Walk(SchemaValue(schema), Tail(e.pointer)).tag # "null"}

C6_RevisitEndsInCycleError ==
    pc = "failed" => error = "CycleError"

\* C7: the recursive builder returns for every declaration of every document.
C7_BuilderTerminates ==
    (/\ pc = "generate"
     /\ sortedPointers # <<>>
     /\ resolvePointer(schema, Head(sortedPointers)).tag # "null")
        => ~NextDeclaration.diverges

\* C11: the declarations of a document are emitted in ascending order of
\* their pointer strings, whatever order the scanner registered them in.
C11_EmittedInPointerOrder ==
    \A i, j \in 1..Len(typeDefinitions) :
        i < j => PointerLess(typeDefinitions[i].pointer, typeDefinitions[j].pointer)

\* C11 happens: a document was emitted whose declarations stand in another
\* order than the one their pointers were registered in.
C11_Witness ==
    /\ Emitted
    /\ \E i, j \in 1..Len(jsonPointerToEntryMap) :
          /\ i < j
          /\ PointerLess(jsonPointerToEntryMap[j].pointer, jsonPointerToEntryMap[i].pointer)
          /\ \E d, e \in Declarations :
                /\ d.pointer = jsonPointerToEntryMap[i].pointer
                /\ e.pointer = jsonPointerToEntryMap[j].pointer

\* Pass 1 of scanSchema on a fresh registry: the registry and the references.
scanPass1(doc) ==
    traverse(doc, RootPointer, <<>>,
             [map |-> createTypeNameRegistry.map,
              count |-> createTypeNameRegistry.count, refs |-> <<>>])

\* scanSchema on a fresh registry: the registry after the three passes.
scanSchema(doc) ==
    LET st == scanPass1(doc)
    IN cleanupRedundantAliases(
           doc, registerMissingReferences(st.refs, [map |-> st.map, count |-> st.count]))

\* The loop of processSchemaFile over the pointers left to visit.
RECURSIVE GenerateAll(_, _, _)
GenerateAll(doc, reg, pointers) ==
    IF pointers = <<>> THEN <<>>
    ELSE IF resolvePointer(doc, Head(pointers)).tag = "null"
    THEN GenerateAll(doc, reg, Tail(pointers))
    ELSE <<generateTypeDefinition(get(reg, Head(pointers)),
                                  AsSchema(resolvePointer(doc, Head(pointers))),
                                  doc, reg, Head(pointers))>>
         \o GenerateAll(doc, reg, Tail(pointers))

\* processSchemaFile as one function of the document: whether it throws, and
\* the (pointer, assigned name) pairs of the declarations in emitted order.
processSchemaFile(doc) ==
    LET reg == scanSchema(doc)
        all == getAll(reg)
        generated == GenerateAll(doc, reg, SortPointers([i \in 1..Len(all) |-> all[i].pointer]))
    IN [throws |-> AnyDiverges(generated),
        pairs |-> [i \in 1..Len(generated) |->
                      [pointer |-> generated[i].pointer, name |-> generated[i].typeName]]]

Reverse(seq) == [i \in 1..Len(seq) |-> seq[Len(seq) + 1 - i]]
ReverseEntries(o) == IF IsSome(o) THEN Some(Reverse(The(o))) ELSE o

\* The documents that are the same tree as doc with the keys of definitions
\* or of properties written, and so visited, in another order.
SiblingOrders(doc) ==
    {[doc EXCEPT !.definitions = d, !.properties = p] :
        d \in {doc.definitions, ReverseEntries(doc.definitions)},
        p \in {doc.properties, ReverseEntries(doc.properties)}}

\* C12: the list of (pointer, assigned name) pairs emitted for a document is
\* the list emitted for the same tree visited in any other sibling order.
C12_PairsIndependentOfSiblingOrder ==
    Emitted =>
        \A other \in SiblingOrders(schema) :
            /\ ~processSchemaFile(other).throws
            /\ processSchemaFile(other).pairs =
                   [i \in 1..Len(typeDefinitions) |->
                       [pointer |-> typeDefinitions[i].pointer,
                        name |-> typeDefinitions[i].typeName]]

\* text.includes(part), for texts given by their chunks.
ContainsText(text, part) ==
    \E k \in 0..(Len(text) - Len(part)) :
        \A i \in 1..Len(part) : text[k + i] = part[i]

\* The line buildObjectType writes for an optional property.
PropertyLine(key, type) == <<"  ">> \o key \o <<"?">> \o <<": ">> \o type \o <<";">>

\* The pointer of the location that holds the property at pointer p.
ParentOf(p) == [i \in 1..(Len(p) - 2) |-> p[i]]

IsPropertyPointer(p) == Len(p) >= 3 /\ p[Len(p) - 1] = PropertiesPart
IsDefinitionPointer(p) ==
    Len(p) >= 3 /\ (p[Len(p) - 1] = DefinitionsPart \/ p[Len(p) - 1] = DollarDefsPart)

\* The fragment of the document at pointer p.
FragmentAt(p) == AsSchema(resolvePointer(schema, p))

\* The properties pass 1 named whose fragment is solely a $ref to a definition
\* that holds an entry with the base name the property asked for.
RedundantProperties ==
    {p \in {scanPass1(schema).map[i].pointer : i \in 1..Len(scanPass1(schema).map)} :
        /\ IsPropertyPointer(p)
        /\ Truthy(FragmentAt(p).ref)
        /\ FragmentAt(p) = RefTo(FragmentAt(p).ref)
        /\ IsDefinitionPointer(FragmentAt(p).ref)
        /\ Has(jsonPointerToEntryMap, FragmentAt(p).ref)
        /\ EntryOf(scanPass1(schema).map, p).baseName =
               EntryOf(jsonPointerToEntryMap, FragmentAt(p).ref).baseName}

C14_SurvivorHoldsBareName ==
    pc \in {"scanned", "generate", "done", "failed"} =>
        \A e \in Entries :
            (/\ CountOf(typeNameCount, e.baseName) = 2
             /\ \A f \in Entries : f.baseName = e.baseName => f.pointer = e.pointer)
                => e.name = e.baseName

\* The pointers of the locations pass 1 visits from node at pointer.
RECURSIVE Locations(_, _)
Locations(node, pointer) ==
    LET children == traverseDefinitions(node, pointer, <<>>)
                      \o traverseProperties(node, pointer, <<>>)
                      \o traverseItems(node, pointer, <<>>)
                      \o traverseAdditionalProperties(node, pointer, <<>>)
                      \o traverseCombinators(node, pointer, <<>>)
    IN {pointer} \cup UNION {Locations(children[i].schema, children[i].pointer) :
                                i \in 1..Len(children)}

IsCombinatorMember(p) ==
    Len(p) >= 3 /\ p[Len(p) - 1] \in {OneOfPart, AnyOfPart, AllOfPart}

\* The members of oneOf, anyOf and allOf lists that carry a $ref.
RefMembers ==
    {m \in Locations(schema, RootPointer) :
        IsCombinatorMember(m) /\ Truthy(FragmentAt(m).ref)}

\* C15: a oneOf, anyOf or allOf member that carries a $ref has no registry
\* entry of its own and no declaration, and the declaration of the location
\* that holds the combinator names the target's assigned name.
C15_RefMemberHasNoEntry ==
    Emitted =>
        \A m \in RefMembers :
            /\ ~Has(jsonPointerToEntryMap, m)
            /\ \A d \in Declarations : d.pointer # m
            /\ \A d \in Declarations :
                  (/\ d.pointer = ParentOf(m)
                   /\ ~Truthy(FragmentAt(d.pointer).ref)
                   /\ Truthy(get(Registry, FragmentAt(m).ref)))
                      => ContainsText(d.expression, get(Registry, FragmentAt(m).ref))

\* The locations pass 1 registered whose fragment is an object shape with
\* properties and no $ref.
RegisteredObjects ==
    {q \in Locations(schema, RootPointer) :
        /\ Has(scanPass1(schema).map, q)
        /\ ~Truthy(FragmentAt(q).ref)
        /\ IsSome(FragmentAt(q).properties)}

\* The properties of the object at q, each with its key and its pointer.
PropertiesOf(q) ==
    {[key |-> The(FragmentAt(q).properties)[i].key,
      value |-> The(FragmentAt(q).properties)[i].value,
      pointer |-> q \o <<PropertiesPart, The(FragmentAt(q).properties)[i].key>>] :
        i \in 1..Len(The(FragmentAt(q).properties))}

\* The declarations emitted for pointer p.
DeclarationsAt(p) == {i \in 1..Len(typeDefinitions) : typeDefinitions[i].pointer = p}

\* The property has an entry, one declaration under the entry's name, and
\* the line of its parent q names it.
DeclaredAndNamedByParent(q, k) ==
    /\ Has(jsonPointerToEntryMap, k.pointer)
    /\ Cardinality(DeclarationsAt(k.pointer)) = 1
    /\ \A i \in DeclarationsAt(k.pointer) :
          typeDefinitions[i].typeName = EntryOf(jsonPointerToEntryMap, k.pointer).name
    /\ \A i \in DeclarationsAt(q) :
          ContainsText(typeDefinitions[i].expression,
                       PropertyLine(k.key, EntryOf(jsonPointerToEntryMap, k.pointer).name))

PropertyBaseName(P, k) ==
    IF Truthy(k.value.title) /\ isRootOrDefinition(k.pointer)
    THEN toPascalCase(k.value.title)
    ELSE P \o toPascalCase(k.key)

AliasProperties ==
    {x \in UNION {{[parent |-> q, property |-> k] : k \in PropertiesOf(q)} :
                    q \in RegisteredObjects} :
        /\ Has(jsonPointerToEntryMap, x.property.pointer)
        /\ Truthy(x.property.value.ref)
        /\ Has(jsonPointerToEntryMap, x.property.value.ref)
        /\ EntryOf(jsonPointerToEntryMap, x.property.value.ref).baseName #
               EntryOf(jsonPointerToEntryMap, x.property.pointer).baseName}

\* C17: the declaration of a registered property whose fragment is a $ref to
\* a registered target with another base name is the alias of the property's
\* name to the target's assigned name, never to the property's own name, and
\* the parent's property line uses the property's name.
C17_PropertyAliasNamesTarget ==
    Emitted =>
        \A x \in AliasProperties :
            LET own == EntryOf(jsonPointerToEntryMap, x.property.pointer).name
                target == EntryOf(jsonPointerToEntryMap, x.property.value.ref).name
            IN /\ DeclaredAndNamedByParent(x.parent, x.property)
               /\ \A i \in DeclarationsAt(x.property.pointer) :
                     /\ typeDefinitions[i].expression = target
                     /\ typeDefinitions[i].expression # own
                     /\ typeDefinitions[i].definition =
                            generateJSDoc(x.property.value)
                                \o <<"type", " ">> \o own \o <<" = ">> \o target

\* A $ref into this document whose path the document does not have.
IsMissingPath(ref) ==
    StartsWithHash(ref) /\ Walk(SchemaValue(schema), Tail(ref)).tag = "null"

\* The name the use site of a $ref to a missing path gets: the name pass 2
\* assigned from the final segment, or the normalized final segment itself.
NameFromFinalSegment(ref) ==
    IF Truthy(get(Registry, ref)) /\ getBaseName(Registry, ref) = toPascalCase(LastPart(ref))
    THEN get(Registry, ref)
    ELSE toPascalCase(LastPart(ref))

\* C20: a $ref to a path the document does not have raises no error: its use
\* site is rendered as the name derived from the final segment of the path,
\* and every declaration of the rest of the document is produced.
C20_MissingPathRendersSegmentName ==
    /\ \A d \in Declarations : \A u \in d.uses :
          (u.via \in {"ref", "legacy"} /\ IsMissingPath(u.target)) =>
              /\ u.isName
              /\ u.rendered = NameFromFinalSegment(u.target)
    /\ (/\ pc = "generate"
        /\ sortedPointers # <<>>
        /\ Truthy(FragmentAt(Head(sortedPointers)).ref)
        /\ IsMissingPath(FragmentAt(Head(sortedPointers)).ref))
           => ~NextDeclaration.diverges
    /\ Emitted =>
          \A e \in ResolvableEntries : Cardinality(DeclarationsAt(e.pointer)) = 1

\* C20 happens: a document that refers to a missing path was emitted with
\* declarations, and the name derived from the path carries a suffix.
C20_Witness ==
    /\ Emitted
    /\ Cardinality(ResolvableEntries) >= 2
    /\ \E d \in Declarations : \E u \in d.uses :
          /\ IsMissingPath(u.target)
          /\ u.rendered # toPascalCase(LastPart(u.target))

\* The locations of the document whose fragment has no $ref.
InlineLocations ==
    {p \in Locations(schema, RootPointer) : ~Truthy(FragmentAt(p).ref)}

\* What steps 3 to 9 of buildTypeFromSchema make of the fragment at p.
InlineAt(p) == BuildInline(FragmentAt(p), schema, Registry, p, {})

\* C21: for a fragment without $ref, every facet among properties,
\* additionalProperties, oneOf, anyOf and allOf that is present contributes
\* to the built expression: the expression contains what the object builder
\* makes of the object shape and what the union or intersection builder
\* makes of each combinator present.
C21_EveryFacetContributes ==
    Emitted =>
        \A p \in InlineLocations :
            LET node == FragmentAt(p)
                text == InlineAt(p).text
            IN ~InlineAt(p).diverges =>
                /\ (IsSome(node.properties) \/ IsSome(node.additionalProperties)) =>
                      ContainsText(text, buildObjectType(node, schema, Registry, p, {}).text)
                /\ IsSome(node.oneOf) =>
                      ContainsText(text, buildUnionType(The(node.oneOf), OneOfPart, schema,
                                                        Registry, p, {}).text)
                /\ IsSome(node.anyOf) =>
                      ContainsText(text, buildUnionType(The(node.anyOf), AnyOfPart, schema,
                                                        Registry, p, {}).text)
                /\ IsSome(node.allOf) =>
                      ContainsText(text, buildIntersectionType(The(node.allOf), schema,
                                                               Registry, p, {}).text)

\* The two forms of a declaration, after its JSDoc block.
StructuralForm(d) ==
    d.definition = generateJSDoc(FragmentAt(d.pointer))
                       \o <<"interface", " ">> \o d.typeName \o <<" ">> \o d.expression
AliasForm(d) ==
    d.definition = generateJSDoc(FragmentAt(d.pointer))
                       \o <<"type", " ">> \o d.typeName \o <<" = ">> \o d.expression

\* The fragment is a flat property set: its type is exactly "object", it has
\* no enum, no const and no combinator, and the expression opens an object
\* body and holds no intersection separator.
FlatObject(node, expression) ==
    /\ node.type = "object" /\ ~IsSome(node.typeList)
    /\ ~IsSome(node.enum) /\ ~IsSome(node.const)
    /\ ~IsSome(node.oneOf) /\ ~IsSome(node.anyOf) /\ ~IsSome(node.allOf)
    /\ expression # <<>> /\ expression[1] = "{\n"
    /\ \A k \in 1..Len(expression) : expression[k] # " & "

\* C22: a declaration has the structural form if and only if its fragment is
\* a flat property set in the sense above; every other declaration has the
\* alias form.
C22_StructuralIffFlatObject ==
    \A i \in 1..Len(typeDefinitions) :
        LET d == typeDefinitions[i] IN
        IF FlatObject(FragmentAt(d.pointer), d.expression)
        THEN StructuralForm(d) /\ ~AliasForm(d)
        ELSE AliasForm(d) /\ ~StructuralForm(d)

\* C22 happens: one document is declared with a structural declaration, an
\* object with properties that is an alias only for its enum or const, and
\* an object that is an alias only for the intersection in its body.
C22_Witness ==
    /\ Emitted
    /\ \E d \in Declarations : StructuralForm(d)
    /\ \E d \in Declarations :
          /\ AliasForm(d)
          /\ LET node == FragmentAt(d.pointer) IN
             \/ /\ node.type = "object" /\ IsSome(node.properties)
                /\ IsSome(node.enum) \/ IsSome(node.const)
                /\ ~IsSome(node.allOf)
             \/ /\ node.type = "object" /\ IsSome(node.properties)
                /\ ~IsSome(node.enum) /\ ~IsSome(node.const) /\ ~IsSome(node.allOf)
                /\ Includes(d.expression, " & ")

\* scanSchema has returned.
Scanned == pc \notin {"pass1", "pass2", "pass3", "toTypes", "resolved"}

\* The properties of the document that are titled "Status".
StatusProperties ==
    {p \in Locations(schema, RootPointer) :
        IsPropertyPointer(p) /\ FragmentAt(p).title = <<"Status">>}

\* The name pass 1 suggests for the property at p: the name of its parent
\* followed by the normalized key.
SuggestedName(p) == getBaseName(Registry, ParentOf(p)) \o toPascalCase(p[Len(p)])

C24_OnlyRootAndNestedDeclared ==
    (Emitted /\ schema = ReadmeDocument) =>
        /\ [i \in 1..Len(typeDefinitions) |-> typeDefinitions[i].typeName]
              = << <<"R">>, <<"R", "B">> >>
        /\ typeDefinitions[1].expression =
              <<"{\n">>
                 \o PropertyLine(KeyA, <<"string">>) \o <<"\n">>
                 \o PropertyLine(KeyLowerS, <<"\"", "A", "\"", " | ", "\"", "B", "\"">>)
                 \o <<"\n">>
                 \o PropertyLine(<<"b">>, <<"R", "B">>)
                 \o <<"\n}">>

\* The name the rule gives a node: the normalized title when the node has a
\* title and sits at the root or inside a definitions or $defs container,
\* otherwise the suggested name when it is non-empty, otherwise the
\* normalized title when there is one, otherwise none.
RuleName(node, pointer, suggestedName, inContainer) ==
    IF Truthy(node.title) /\ (pointer = RootPointer \/ inContainer)
    THEN toPascalCase(node.title)
    ELSE IF Truthy(suggestedName) THEN suggestedName
    ELSE IF Truthy(node.title) THEN toPascalCase(node.title)
    ELSE <<>>

\* The nodes pass 1 visits, each with the name the rule gives it; a node is
\* inside a container when it or one of the nodes above it is an entry of a
\* definitions or $defs object.
RECURSIVE RuleVisits(_, _, _, _)
RuleVisits(node, pointer, suggestedName, inContainer) ==
    LET name == RuleName(node, pointer, suggestedName, inContainer)
        entries == traverseDefinitions(node, pointer, name)
        others == traverseProperties(node, pointer, name)
                    \o traverseItems(node, pointer, name)
                    \o traverseAdditionalProperties(node, pointer, name)
                    \o traverseCombinators(node, pointer, name)
    IN {[pointer |-> pointer, name |-> name]}
         \cup UNION {RuleVisits(entries[i].schema, entries[i].pointer,
                                entries[i].suggestedName, TRUE) :
                        i \in 1..Len(entries)}
         \cup UNION {RuleVisits(others[i].schema, others[i].pointer,
                                others[i].suggestedName, inContainer) :
                        i \in 1..Len(others)}

\* C25: after pass 1 every visited node whose rule name is non-empty is
\* registered under its pointer with that base name, and no other visited
\* node is registered.
C25_Pass1NamesFollowRule ==
    pc = "pass2" =>
        \A v \in RuleVisits(schema, RootPointer, <<>>, FALSE) :
            /\ Has(jsonPointerToEntryMap, v.pointer) <=> Truthy(v.name)
            /\ Has(jsonPointerToEntryMap, v.pointer) =>
                  getBaseName(Registry, v.pointer) = v.name

\* The entries pass 2 appended to those of pass 1.
AddedByPass2 ==
    {jsonPointerToEntryMap[i] :
        i \in (Len(scanPass1(schema).map) + 1)..Len(jsonPointerToEntryMap)}

\* C26: after pass 2 and before pass 3 every same-document pointer of the
\* reference set has a registry entry, the entries of pass 1 are as pass 1
\* left them, and every entry pass 2 added has as base name the normalized
\* final segment of its pointer.
C26_Pass2RegistersReferences ==
    pc = "pass3" =>
        /\ \A i \in 1..Len(references) :
              StartsWithHash(references[i]) => Has(jsonPointerToEntryMap, references[i])
        /\ Len(scanPass1(schema).map) <= Len(jsonPointerToEntryMap)
        /\ \A i \in 1..Len(scanPass1(schema).map) :
              jsonPointerToEntryMap[i] = scanPass1(schema).map[i]
        /\ \A e \in AddedByPass2 :
              e.baseName = toPascalCase(LastPart(e.pointer))

\* C26 happens: pass 2 has added an entry to those of pass 1.
C26_Witness ==
    /\ pc = "pass3"
    /\ scanPass1(schema).map # <<>>
    /\ AddedByPass2 # {}

\* The registry as pass 2 leaves it.
Pass2Registry ==
    registerMissingReferences(scanPass1(schema).refs,
                              [map |-> scanPass1(schema).map,
                               count |-> scanPass1(schema).count])

\* The fragment at p is a $ref and nothing else, to another pointer that
\* pass 2 left registered under the base name p has.
IsExactAlias(p) ==
    /\ Truthy(FragmentAt(p).ref)
    /\ FragmentAt(p) = RefTo(FragmentAt(p).ref)
    /\ FragmentAt(p).ref # p
    /\ Has(Pass2Registry.map, FragmentAt(p).ref)
    /\ getBaseName(Pass2Registry, FragmentAt(p).ref) = getBaseName(Pass2Registry, p)

\* C27: pass 3 deletes a registered pointer if and only if its fragment is
\* exactly a reference to another registered pointer whose base name equals
\* its own; every other entry and every counter is as pass 2 left it.
C27_Pass3DeletesExactAliases ==
    pc = "scanned" =>
        /\ \A i \in 1..Len(Pass2Registry.map) :
              LET e == Pass2Registry.map[i] IN
              IF IsExactAlias(e.pointer)
              THEN ~Has(jsonPointerToEntryMap, e.pointer)
              ELSE /\ Has(jsonPointerToEntryMap, e.pointer)
                   /\ EntryOf(jsonPointerToEntryMap, e.pointer) = e
        /\ \A i \in 1..Len(jsonPointerToEntryMap) :
              Has(Pass2Registry.map, jsonPointerToEntryMap[i].pointer)
        /\ typeNameCount = Pass2Registry.count

\* C28: every name the registry holds after scanSchema, and the name of
\* every emitted declaration, is a non-empty string.
C28_NamesNonEmpty ==
    Scanned =>
        /\ \A e \in Entries : e.name # <<>>
        /\ \A d \in Declarations : d.typeName # <<>>

\* C29: no emitted declaration is trivially self-referential: the expression
\* of a declaration is never exactly the declaration's own name.
C29_NoSelfAlias ==
    \A d \in Declarations : d.expression # d.typeName

\* Other orders in which pass 3 could visit the pointers: the reverse of the
\* order, and the order with two neighbours exchanged.
VisitingOrders(pointers) ==
    {Reverse(pointers)}
    \cup {[i \in 1..Len(pointers) |->
              IF i = k THEN pointers[k + 1]
              ELSE IF i = k + 1 THEN pointers[k]
              ELSE pointers[i]] : k \in 1..(Len(pointers) - 1)}

\* The entries of a registry, as a set.
EntrySet(reg) == {reg.map[i] : i \in 1..Len(reg.map)}

\* C30: the set of entries that survive pass 3 does not depend on the order
\* in which pass 3 visits the registered pointers.
C30_Pass3OrderIndependent ==
    pc = "pass3" =>
        \A order \in VisitingOrders([i \in 1..Len(getAll(Registry)) |->
                                        getAll(Registry)[i].pointer]) :
            EntrySet(CleanupLoop(schema, order, Registry))
                = EntrySet(cleanupRedundantAliases(schema, Registry))

(***************************************************************************)
(* The registry driven directly: any register and delete calls             *)
(***************************************************************************)

\* Number of register/delete calls made on one registry.
MaxCalls == 4

\* Pointers and requested names the calls are drawn from.
CallPointers == { << <<"#">> >>,
                  << <<"#">>, <<"definitions">>, <<"S">> >>,
                  << <<"#">>, <<"properties">>, <<"s">> >> }
CallNames == { <<"S">>, <<"S", "_", "1">>, <<"A">> }

EmptySchema == [kind |-> "schema"]

RegistryInit ==
    /\ jsonPointerToEntryMap = createTypeNameRegistry.map
    /\ typeNameCount = createTypeNameRegistry.count
    /\ calls = <<>>
    /\ schema = EmptySchema
    /\ references = <<>>
    /\ pc = "registry"
    /\ typeDefinitions = <<>>
    /\ exportedTypes = <<>>
    /\ sortedPointers = <<>>
    /\ written = <<>>
    /\ error = ""
    /\ config = DefaultConfig
    /\ schemaFiles = <<>>
    /\ outcomes = <<>>

\* registry.register(pointer, name)
Register(pointer, name) ==
    /\ pc = "registry"
    /\ Len(calls) < MaxCalls
    /\ LET r == register(Registry, pointer, name) IN
       /\ jsonPointerToEntryMap' = r.map
       /\ typeNameCount' = r.count
       /\ calls' = Append(calls, [op |-> "register", pointer |-> pointer,
                                  name |-> name, returned |-> r.result,
                                  had |-> Has(jsonPointerToEntryMap, pointer)])
    /\ UNCHANGED pipelineVars

\* registry.delete(pointer)
Delete(pointer) ==
    /\ pc = "registry"
    /\ Len(calls) < MaxCalls
    /\ LET r == delete(Registry, pointer) IN
       /\ jsonPointerToEntryMap' = r.map
       /\ typeNameCount' = r.count
       /\ calls' = Append(calls, [op |-> "delete", pointer |-> pointer,
                                  name |-> get(Registry, pointer),
                                  returned |-> Undefined,
                                  had |-> Has(jsonPointerToEntryMap, pointer)])
    /\ UNCHANGED pipelineVars

RegistryNext ==
    \/ \E pointer \in CallPointers, name \in CallNames : Register(pointer, name)
    \/ \E pointer \in CallPointers : Delete(pointer)

RegistrySpec == RegistryInit /\ [][RegistryNext]_vars

\* The calls that created an entry: register on a pointer without one.
FreshCalls == {i \in 1..Len(calls) : calls[i].op = "register" /\ ~calls[i].had}

\* The fresh requests of calls[i].name made before call i.
EarlierRequests(i) == {j \in FreshCalls : j < i /\ calls[j].name = calls[i].name}

\* C2: after any sequence of register and delete calls, for any pointers and
\* any requested names, no two registered pointers hold the same assigned name.
C2_AssignedNamesDistinct ==
    \A i, j \in 1..Len(jsonPointerToEntryMap) :
        i # j => jsonPointerToEntryMap[i].name # jsonPointerToEntryMap[j].name

\* C8: register on a pointer that already has an entry returns that entry's
\* assigned name whatever name is requested, and changes neither the entries
\* nor any per-base-name counter.
C8_ReRegisterIsIdempotent ==
    [][(/\ Len(calls') = Len(calls) + 1
        /\ calls'[Len(calls')].op = "register"
        /\ Has(jsonPointerToEntryMap, calls'[Len(calls')].pointer))
       => (/\ jsonPointerToEntryMap' = jsonPointerToEntryMap
           /\ typeNameCount' = typeNameCount
           /\ calls'[Len(calls')].returned =
                  EntryOf(jsonPointerToEntryMap, calls'[Len(calls')].pointer).name)]_vars

\* C8 happens: a pointer was registered again under a name other than the
\* base name it holds, while another pointer holds an entry too.
C8_Witness ==
    \E i \in 1..Len(calls) :
        /\ calls[i].op = "register" /\ calls[i].had
        /\ Has(jsonPointerToEntryMap, calls[i].pointer)
        /\ calls[i].name # EntryOf(jsonPointerToEntryMap, calls[i].pointer).baseName
        /\ Len(jsonPointerToEntryMap) >= 2

\* C9: of the requests of one base name N made by pointers without an entry,
\* the first returns N and the k-th later one returns N_k, in request order.
C9_SuffixesInRequestOrder ==
    \A i \in FreshCalls :
        calls[i].returned =
            IF EarlierRequests(i) = {} THEN calls[i].name
            ELSE calls[i].name \o <<"_">> \o NatToStr(Cardinality(EarlierRequests(i)))

\* C9 happens: three pointers requested the same base name.
C9_Witness ==
    \E i \in FreshCalls :
        /\ Cardinality(EarlierRequests(i)) = 2
        /\ Cardinality({calls[j].pointer : j \in EarlierRequests(i) \cup {i}}) = 3

\* C10: no operation, delete included, decreases a per-base-name counter, and
\* of two registrations of one base name the later one gets the greater
\* suffix, also when the entry of the earlier one was deleted in between.
C10_CountersNeverDecrease ==
    [][/\ \A b \in DOMAIN typeNameCount :
            b \in DOMAIN typeNameCount' /\ typeNameCount'[b] >= typeNameCount[b]
       /\ \A i, j \in FreshCalls' :
            (i < j /\ calls'[i].name = calls'[j].name) =>
                \E ki, kj \in 0..Len(calls') :
                    /\ ki < kj
                    /\ calls'[i].returned = UniqueName(calls'[i].name, ki)
                    /\ calls'[j].returned = UniqueName(calls'[j].name, kj)]_vars

\* C10 happens: a pointer holding a suffixed name was deleted and the base
\* name was requested again afterwards.
C10_Witness ==
    \E d \in 1..Len(calls), i \in FreshCalls :
        /\ calls[d].op = "delete" /\ calls[d].had
        /\ d < i
        /\ \E j \in EarlierRequests(i) :
              j < d /\ calls[j].pointer = calls[d].pointer
                    /\ calls[j].returned # calls[j].name

(***************************************************************************)
(* toTypes: the loop over the schema files of a directory                  *)
(***************************************************************************)

\* Number of files glob finds.
MaxFiles == 2

\* The content of a file: text that JSON.parse rejects, or a document.
InvalidFile == [json |-> FALSE, text |-> <<"{">>]
JsonFile(doc) == [json |-> TRUE, document |-> doc]

\* A root with one primitive property; a root whose definition refers to
\* itself, which buildTypeFromSchema follows without end; a root nothing is
\* named in.
GoodDocument ==
    [Blank EXCEPT !.title = <<"R">>, !.type = "object",
                  !.properties = Some(<<Entry(KeyLowerS, StringType)>>)]
CyclicDocument ==
    [Blank EXCEPT !.title = <<"R">>, !.type = "object",
                  !.definitions = Some(<<Entry(KeyUpperS, TypedRefTo(DefUpperS))>>),
                  !.properties = Some(<<Entry(KeyLowerS, RefTo(DefUpperS))>>)]
AnonymousDocument == [Blank EXCEPT !.type = "object"]

\* A root whose property refers to a path the document does not have.
DanglingDocument ==
    [Blank EXCEPT !.title = <<"B">>, !.type = "object",
                  !.properties = Some(<<Entry(KeyLowerS, RefTo(DefMissing))>>)]

BatchFiles ==
    {InvalidFile, JsonFile(GoodDocument), JsonFile(CyclicDocument),
     JsonFile(AnonymousDocument), JsonFile(DanglingDocument)}

FileLists == UNION {[1..n -> BatchFiles] : n \in 0..MaxFiles}

\* The file of the current turn of the loop.
CurrentFile == schemaFiles[Len(outcomes) + 1]

BatchInit ==
    /\ config \in Configs
    /\ schemaFiles \in FileLists
    /\ outcomes = <<>>
    /\ jsonPointerToEntryMap = createTypeNameRegistry.map
    /\ typeNameCount = createTypeNameRegistry.count
    /\ calls = <<>>
    /\ schema = EmptySchema
    /\ references = <<>>
    /\ pc = "toTypes"
    /\ typeDefinitions = <<>>
    /\ exportedTypes = <<>>
    /\ sortedPointers = <<>>
    /\ written = <<>>
    /\ error = ""

\* A turn of the loop: processSchemaFile reads and parses the file and
\* creates a fresh registry.
ProcessSchemaFile ==
    /\ pc = "toTypes"
    /\ Len(outcomes) < Len(schemaFiles)
    /\ CurrentFile.json
    /\ schema' = CurrentFile.document
    /\ jsonPointerToEntryMap' = createTypeNameRegistry.map
    /\ typeNameCount' = createTypeNameRegistry.count
    /\ references' = <<>>
    /\ typeDefinitions' = <<>>
    /\ exportedTypes' = <<>>
    /\ sortedPointers' = <<>>
    /\ written' = <<>>
    /\ error' = ""
    /\ pc' = "pass1"
    /\ UNCHANGED <<batchVars, calls>>

\* A turn of the loop: JSON.parse throws.
ParseThrows ==
    /\ pc = "toTypes"
    /\ Len(outcomes) < Len(schemaFiles)
    /\ ~CurrentFile.json
    /\ error' = "SyntaxError"
    /\ written' = <<>>
    /\ pc' = "failed"
    /\ UNCHANGED <<registryVars, calls, schema, references, typeDefinitions,
                   exportedTypes, sortedPointers, batchVars>>

\* A plausible slip: the error leaves the loop and toTypes rejects.
CatchRethrows ==
    /\ pc = "failed"
    /\ Len(outcomes) < Len(schemaFiles)
    /\ pc' = "rejected"
    /\ UNCHANGED <<registryVars, calls, schema, references, typeDefinitions,
                   exportedTypes, sortedPointers, written, error, batchVars>>

\* catch (error): console.warn, and the loop goes on.
Catch ==
    /\ pc = "failed"
    /\ Len(outcomes) < Len(schemaFiles)
    /\ outcomes' = Append(outcomes, [warned |-> TRUE, error |-> error, written |-> <<>>])
    /\ pc' = "toTypes"
    /\ UNCHANGED <<registryVars, calls, schema, references, typeDefinitions,
                   exportedTypes, sortedPointers, written, error, config, schemaFiles>>

\* processSchemaFile returned, and the loop goes on.
Returned ==
    /\ pc = "done"
    /\ Len(outcomes) < Len(schemaFiles)
    /\ outcomes' = Append(outcomes, [warned |-> FALSE, error |-> "", written |-> written])
    /\ pc' = "toTypes"
    /\ UNCHANGED <<registryVars, calls, schema, references, typeDefinitions,
                   exportedTypes, sortedPointers, written, error, config, schemaFiles>>

\* The loop is over: the promise of toTypes resolves.
Resolve ==
    /\ pc = "toTypes"
    /\ Len(outcomes) = Len(schemaFiles)
    /\ pc' = "resolved"
    /\ UNCHANGED <<registryVars, calls, schema, references, typeDefinitions,
                   exportedTypes, sortedPointers, written, error, batchVars>>

toTypes ==
    \/ ProcessSchemaFile
    \/ ParseThrows
    \/ Catch
    \/ Returned
    \/ Resolve

BatchNext == Next \/ toTypes

BatchSpec == BatchInit /\ [][BatchNext]_vars

\* The names of the declarations written, without repetition.
DeclaredNames == Unique([i \in 1..Len(typeDefinitions) |-> typeDefinitions[i].typeName])

\* C18: the export list written for a document follows the export mode: with
\* ROOT_ONLY it is the name registered for the root alone, with
\* UNIQUE_EXPORTS the name of every emitted declaration.
C18_ExportsFollowMode ==
    (pc = "done" /\ written # <<>>) =>
        written[1].uniqueExports =
            IF config.generatedTypesExportsFormat = "ROOT_ONLY"
            THEN (IF Has(jsonPointerToEntryMap, RootPointer)
                  THEN <<get(Registry, RootPointer)>> ELSE <<>>)
            ELSE DeclaredNames

\* What the loop makes of one file.
ExpectedOutcome(file) ==
    IF ~file.json THEN "SyntaxError"
    ELSE IF processSchemaFile(file.document).throws THEN "RangeError"
    ELSE ""

\* Every file has its outcome: a warning for a file that fails, and for any
\* other file what processSchemaFile writes for it.
AllProcessed ==
    /\ Len(outcomes) = Len(schemaFiles)
    /\ \A i \in 1..Len(schemaFiles) :
          /\ outcomes[i].error = ExpectedOutcome(schemaFiles[i])
          /\ outcomes[i].warned = (ExpectedOutcome(schemaFiles[i]) # "")
          /\ (schemaFiles[i].json /\ ~outcomes[i].warned) =>
                [k \in 1..Len(processSchemaFile(schemaFiles[i].document).pairs) |->
                    processSchemaFile(schemaFiles[i].document).pairs[k].name]
                = (IF outcomes[i].written = <<>> THEN <<>>
                   ELSE outcomes[i].written[1].uniqueExports)

\* C19: in a batch run a file that fails, unparsable or throwing while it is
\* scanned or generated, never keeps the other files from being processed,
\* and toTypes completes without rejecting: toTypes never rejects, the loop
\* always has a next step once a file has failed or has been written, and
\* when toTypes resolves every file has had its outcome.
C19_BatchCompletes ==
    /\ pc # "rejected"
    /\ pc \in {"toTypes", "failed", "done"} => ENABLED toTypes
    /\ pc = "resolved" => AllProcessed

\* C19 happens: toTypes resolved after a file failed and a later file was
\* written.
C19_Witness ==
    /\ pc = "resolved"
    /\ \E i, j \in 1..Len(outcomes) :
          /\ i < j
          /\ outcomes[i].warned
          /\ ~outcomes[j].warned /\ outcomes[j].written # <<>>

====
